---- MODULE Spec2Model ----
(***************************************************************************)
(* A model of the helper functions of seeyebe/yebe that keep state across  *)
(* events: the CooldownManager, the two paginators, the wait* helpers and  *)
(* interactiveConfirm.                                                     *)
(***************************************************************************)
EXTENDS Integers, Sequences, FiniteSets, Bags, TLC

(***************************************************************************)
(* Bounds of the model                                                     *)
(***************************************************************************)
MaxTime == 2
MaxDuration == 2
MaxTimers == 2
MaxPages == 3
MaxClicks == 2
MaxItems == 3
MaxConfirmClicks == 2
MaxCalls == 3
MaxMessages == 201
MaxRoleCalls == 3
MaxMembers == 3
MaxText == 6
MaxLength == 3
MaxValues == 3
MaxValueLen == 3
MaxChunkSize == 3
MaxFields == 5
MaxGroup == 3
MaxPosition == 2

Users == {"u1", "u2"}
Commands == {"c1", "c2"}
Durations == 1..MaxDuration
\* the (user, command) pairs check is called with: two commands of one user and
\* two users of one command
Pairs == {<<"u1", "c1">>, <<"u1", "c2">>, <<"u2", "c1">>}

VARIABLES
  now,        \* Date.now()
  cooldowns,  \* CooldownManager.cooldowns: command -> (userId -> timestamp)
  timers,     \* bag of pending setTimeout callbacks of CooldownManager.check
  res,        \* what the last CooldownManager step did and returned
  lastOk,     \* history: the time of the last check(u, c, d) that returned onCooldown = false,
              \* kept while now is inside the window [t, t + d) it opened
  checked,    \* history: the (user, command) pairs check was ever called for
  pg,         \* the paginator's call: kind, number of pages n, startPage, userId option
  pgPhase,    \* where the call is: "start", "sending", "active", "ended", "failed"
  pgPromise,  \* the returned promise: "pending", "resolved", "rejected"
  currentPage,\* let currentPage
  msg,        \* the message as the platform shows it: page, buttons, whose click edited it
  handlers,   \* bag of running 'collect' handlers, each at its pending await
  pgEndEdit,  \* the message.edit({components: []}) of the 'end' handler
  pgClicks,   \* number of clicks delivered to the collector
  pgSeq,      \* history: the page reached by applying the collected clicks in collection order
  pgLast,     \* history: the last click applied to currentPage (user, id, from, to)
  pgFailed,   \* history: an awaited API call of a handler or of 'end' has failed
  wt,         \* the wait* call: which helper, the awaited user, filter / collector present
  wtPhase,    \* its collector: "none", "collecting", "ended"
  wtItems,    \* history: the interactions / messages that reached the collector, in order
  wtCollected,\* collector.collected, as indexes into wtItems
  wtResult,   \* the returned promise: pending, or resolved with an item or with null
  cf,         \* the interactiveConfirm call: the user, whether the channel can send
  cfPhase,    \* where interactiveConfirm is: its pending await, or "returned" / "thrown"
  cfSeen,     \* history: the clicks on the sent message during the wait, in order
  cfPick,     \* the interaction awaitMessageComponent resolved with (its customId)
  cfButtons,  \* whether the sent message carries the confirm / cancel buttons
  cfResult,   \* what interactiveConfirm returned
  df,         \* the interaction as deferOrReply first got it (deferred, replied)
  interaction,\* interaction.deferred and interaction.replied
  dfLog,      \* history: the API call each deferOrReply made, with its arguments and outcome
  fm,         \* the call of fetchAllMessages: messages in the channel, limit, channel.isTextBased()
  fmPhase,    \* idle, running or done
  allMessages,\* allMessages (ids, in the order collected)
  remainingLimit,\* remainingLimit
  lastId,     \* lastId
  fmLog,      \* history: the requests made (limit, before) and the size of each answer
  roleCache,  \* member.roles.cache.has(role), per member
  roleServer, \* whether the member has the role in the guild
  rlLog,      \* history: the calls of addMemberRole and removeMemberRole
  bk,         \* the call of bulkRoleManager (action, members, continueOnError, trackErrors)
  bkPhase,    \* idle, running, resolved or rejected
  bkIdx,      \* position of the loop in members
  successCount,\* successCount
  failedCount,\* failedCount
  errors,     \* errors (positions of the members whose error was kept)
  bkResult,   \* what bulkRoleManager returned
  bkError,    \* position of the member whose error bulkRoleManager rejected with
  fnCall,     \* the function called and its arguments
  fnRet,      \* what the function returned
  fnDone      \* whether the function has returned

cdVars == <<now, cooldowns, timers, res, lastOk, checked>>
pgVars == <<pg, pgPhase, pgPromise, currentPage, msg, handlers, pgEndEdit, pgClicks,
            pgSeq, pgLast, pgFailed>>
wtVars == <<wt, wtPhase, wtItems, wtCollected, wtResult>>
cfVars == <<cf, cfPhase, cfSeen, cfPick, cfButtons, cfResult>>
dfVars == <<df, interaction, dfLog>>
fmVars == <<fm, fmPhase, allMessages, remainingLimit, lastId, fmLog>>
rlVars == <<roleCache, roleServer, rlLog, bk, bkPhase, bkIdx, successCount, failedCount, errors, bkResult, bkError>>
fnVars == <<fnCall, fnRet, fnDone>>
vars == <<cdVars, pgVars, wtVars, cfVars, dfVars, fmVars, rlVars, fnVars>>
notCdVars == <<pgVars, wtVars, cfVars, dfVars, fmVars, rlVars, fnVars>>
notPgVars == <<cdVars, wtVars, cfVars, dfVars, fmVars, rlVars, fnVars>>
notWtVars == <<cdVars, pgVars, cfVars, dfVars, fmVars, rlVars, fnVars>>
notCfVars == <<cdVars, pgVars, wtVars, dfVars, fmVars, rlVars, fnVars>>
notDfVars == <<cdVars, pgVars, wtVars, cfVars, fmVars, rlVars, fnVars>>
notFmVars == <<cdVars, pgVars, wtVars, cfVars, dfVars, rlVars, fnVars>>
notRlVars == <<cdVars, pgVars, wtVars, cfVars, dfVars, fmVars, fnVars>>
notFnVars == <<cdVars, pgVars, wtVars, cfVars, dfVars, fmVars, rlVars>>

(***************************************************************************)
(* CooldownManager                                                         *)
(***************************************************************************)
NoTime == -1
EmptyColl == [x \in {} |-> 0]

\* timestamps.has(userId) on the inner collection of command c
HasTimestamp(cd, c, u) == c \in DOMAIN cd /\ u \in DOMAIN cd[c]

\* timestamps.get(userId), NoTime when there is none
Timestamp(cd, c, u) == IF HasTimestamp(cd, c, u) THEN cd[c][u] ELSE NoTime

\* if (!this.cooldowns.has(command)) this.cooldowns.set(command, new Collection())
EnsureCommand(cd, c) ==
  IF c \in DOMAIN cd THEN cd ELSE [x \in DOMAIN cd \cup {c} |-> IF x = c THEN EmptyColl ELSE cd[x]]

\* the test of the cooldown branch: timestamps.has(userId) and now < expirationTime
OnCooldownLate(cd, c, u, d, t) ==
  HasTimestamp(cd, c, u) /\ t <= cd[c][u] + d

OnCooldown(cd, c, u, d, t) ==
  HasTimestamp(cd, c, u) /\ t < cd[c][u] + d

\* timestamps.set(userId, now)
SetTimestamp(cd, c, u, t) ==
  [x \in DOMAIN cd |->
     IF x = c THEN [y \in DOMAIN cd[c] \cup {u} |-> IF y = u THEN t ELSE cd[c][y]]
     ELSE cd[x]]

\* the timer callback of a check on (c, u): timestamps.delete(userId)
DeleteTimestampAllCommands(cd, c, u) ==
  [x \in DOMAIN cd |-> [y \in DOMAIN cd[x] \ {u} |-> cd[x][y]]]

DeleteTimestampNever(cd, c, u) == cd

DeleteTimestamp(cd, c, u) ==
  [x \in DOMAIN cd |->
     IF x = c THEN [y \in DOMAIN cd[c] \ {u} |-> cd[c][y]] ELSE cd[x]]

\* what check returns (lines 63-75): on cooldown with the time left, or not on cooldown
CheckReturnAnyTimestamp(cd, c, u, d, t) ==
  IF HasTimestamp(cd, c, u)
  THEN [onCooldown |-> TRUE, timeLeft |-> (cd[c][u] + d) - t]
  ELSE [onCooldown |-> FALSE, timeLeft |-> 0]

CheckReturn(cd, c, u, d, t) ==
  IF OnCooldown(cd, c, u, d, t)
  THEN [onCooldown |-> TRUE, timeLeft |-> (cd[c][u] + d) - t]
  ELSE [onCooldown |-> FALSE, timeLeft |-> 0]

\* t is a time t0 <= t < t0 + d of the window an accepted check at t0 opened
InWindow(t0, d, t) == t0 # NoTime /\ t0 <= t /\ t < t0 + d

NoRes == [op |-> "none"]

CdStart ==
  /\ now = 0
  /\ cooldowns = EmptyColl
  /\ timers = EmptyBag
  /\ res = NoRes
  /\ lastOk = [k \in {<<p[1], p[2], d>> : p \in Pairs, d \in Durations} |-> NoTime]
  /\ checked = {}

\* CooldownManager.check(userId, command, duration) called at Date.now() = now
Check(u, c, d) ==
  LET cd == EnsureCommand(cooldowns, c)
      base == [op |-> "check", user |-> u, cmd |-> c, dur |-> d, at |-> now,
               ts |-> Timestamp(cd, c, u), first |-> <<u, c>> \notin checked,
               prevOk |-> lastOk[<<u, c, d>>]]
  IN
  /\ now <= MaxTime
  /\ checked' = checked \cup {<<u, c>>}
  /\ res' = base @@ CheckReturn(cd, c, u, d, now)
  /\ IF OnCooldown(cd, c, u, d, now)
     THEN /\ cooldowns' = cd
          /\ UNCHANGED <<now, timers, lastOk>>
     ELSE /\ BagCardinality(timers) < MaxTimers
          /\ cooldowns' = SetTimestamp(cd, c, u, now)
          /\ timers' = timers (+) SetToBag({[cmd |-> c, user |-> u, setAt |-> now, dur |-> d]})
          /\ lastOk' = [lastOk EXCEPT ![<<u, c, d>>] = now]
          /\ UNCHANGED now
  /\ UNCHANGED notCdVars

\* a pending timer fires, at or after its deadline
Expire(tm) ==
  /\ BagIn(tm, timers)
  /\ tm.setAt + tm.dur <= now
  /\ timers' = timers (-) SetToBag({tm})
  /\ cooldowns' = DeleteTimestamp(cooldowns, tm.cmd, tm.user)
  /\ res' = [op |-> "expire", user |-> tm.user, cmd |-> tm.cmd, setAt |-> tm.setAt]
  /\ UNCHANGED <<now, lastOk, checked>>
  /\ UNCHANGED notCdVars

\* time passes (checks are made up to MaxTime, the timers they set are due by
\* MaxTime + MaxDuration); lastOk forgets the windows that have closed
Tick ==
  /\ now < MaxTime + MaxDuration
  /\ now' = now + 1
  /\ res' = [op |-> "tick"]
  /\ lastOk' = [k \in DOMAIN lastOk |-> IF InWindow(lastOk[k], k[3], now + 1) THEN lastOk[k] ELSE NoTime]
  /\ UNCHANGED <<cooldowns, timers, checked>>
  /\ UNCHANGED notCdVars

CdNext ==
  \/ \E p \in Pairs, d \in Durations : Check(p[1], p[2], d)
  \/ \E tm \in BagToSet(timers) : Expire(tm)
  \/ Tick

(***************************************************************************)
(* sendPaginatedMessage and sendPaginatedEmbed                             *)
(***************************************************************************)
NoUser == "none"
NoClick == [id |-> "none"]
NoPage == -2

Max(a, b) == IF a >= b THEN a ELSE b
Min(a, b) == IF a <= b THEN a ELSE b

\* the buttons of each paginator that change the page
MsgButtons == {"prev", "next"}
EmbedButtons == {"first", "prev", "next", "last"}

\* options.buttons: none, or one custom button with the id "jump" whose callback may
\* return any integer: one below the pages, the first page, one past every array
CustomButtons(custom) == IF custom THEN {"jump"} ELSE {}
CallbackResults == {-1, 0, MaxPages}

\* the switch of sendPaginatedMessage's collect handler
MsgApplyWrap(page, id, n) ==
  CASE id = "prev" -> IF page > 0 THEN page - 1 ELSE n - 1
    [] id = "next" -> IF page < n - 1 THEN page + 1 ELSE 0
    [] OTHER -> page

MsgApply(page, id, n) ==
  CASE id = "prev" -> Max(0, page - 1)
    [] id = "next" -> Min(n - 1, page + 1)
    [] OTHER -> page

\* the callbacks of sendPaginatedEmbed's defaultButtons
EmbedApplyClamp(page, id, n) ==
  CASE id = "first" -> 0
    [] id = "prev" -> Max(0, page - 1)
    [] id = "next" -> Min(n - 1, page + 1)
    [] id = "last" -> n - 1
    [] OTHER -> page

EmbedApply(page, id, n) ==
  CASE id = "first" -> 0
    [] id = "prev" -> IF page > 0 THEN page - 1 ELSE n - 1
    [] id = "next" -> IF page < n - 1 THEN page + 1 ELSE 0
    [] id = "last" -> n - 1
    [] OTHER -> page

\* if (userId && interaction.user.id !== userId) of sendPaginatedMessage: refused
MsgRefusedNever(userId, u) == FALSE

MsgRefused(userId, u) == userId # NoUser /\ u # userId

\* the same test in the collector filter of sendPaginatedEmbed
EmbedRefusedNever(userId, u) == FALSE

EmbedRefused(userId, u) == userId # NoUser /\ u # userId

\* let currentPage = ... of each paginator
MsgStartPage(startPage, n) == startPage
EmbedStartPage(startPage, n) == Min(startPage, n - 1)

\* pages[pageIndex]: the page itself, undefined outside the array
Undefined == -3
PageAt(pageIndex, n) == IF 0 <= pageIndex /\ pageIndex < n THEN pageIndex ELSE Undefined

\* buildComponents(pageIndex, total, buttons): for each button whether it is
\* disabled, and the label of the page indicator (page number, total)
buildComponentsLastAtTotal(pageIndex, total, custom) ==
  [prev |-> pageIndex = 0,
   page |-> TRUE,
   label |-> <<pageIndex + 1, total>>,
   next |-> pageIndex = total,
   extra |-> [id \in CustomButtons(custom) |-> FALSE]]

buildComponents(pageIndex, total, custom) ==
  [prev |-> pageIndex = 0,
   page |-> TRUE,
   label |-> <<pageIndex + 1, total>>,
   next |-> pageIndex = total - 1,
   extra |-> [id \in CustomButtons(custom) |-> FALSE]]

\* the row of sendPaginatedEmbed: every button enabled, the page in the footer
EmbedRow(pageIndex, total, custom) ==
  [label |-> <<pageIndex + 1, total>>,
   extra |-> [id \in EmbedButtons \cup CustomButtons(custom) |-> FALSE]]

\* what the message shows after a send or an edit built from page index page
Shown(page, by) ==
  [page |-> page, buttons |-> TRUE, by |-> by,
   content |-> PageAt(page, pg.n),
   components |-> IF pg.kind = "message" THEN buildComponents(page, pg.n, pg.custom)
                  ELSE EmbedRow(page, pg.n, pg.custom)]
NotSent == [page |-> NoPage, buttons |-> FALSE, by |-> NoUser]

PgCalls ==
  [kind : {"message", "embed"}, n : 0..MaxPages, startPage : -1..MaxPages,
   userId : {NoUser, "u1"}, custom : BOOLEAN]

PgBlank(call) ==
  /\ pg = call
  /\ pgPhase = "start"
  /\ pgPromise = "pending"
  /\ currentPage = NoPage
  /\ msg = NotSent
  /\ handlers = EmptyBag
  /\ pgEndEdit = "none"
  /\ pgClicks = 0
  /\ pgSeq = NoPage
  /\ pgLast = NoClick
  /\ pgFailed = FALSE

\* the paginators are not in use
PgIdle ==
  PgBlank([kind |-> "message", n |-> 0, startPage |-> 0, userId |-> NoUser, custom |-> FALSE])

PgStart == \E call \in PgCalls : PgBlank(call)

\* the promise executor up to its first await: channel.send(...) is issued
PgCall ==
  /\ pgPhase = "start"
  /\ IF pg.kind = "embed" /\ pg.n = 0
     THEN \* reject(new Error('No embeds provided'))
          /\ pgPhase' = "failed"
          /\ pgPromise' = "rejected"
          /\ UNCHANGED <<currentPage, pgSeq>>
     ELSE LET start == IF pg.kind = "message" THEN MsgStartPage(pg.startPage, pg.n)
                                               ELSE EmbedStartPage(pg.startPage, pg.n)
          IN /\ currentPage' = start
             /\ pgSeq' = start
             /\ IF pg.kind = "embed" /\ start < 0
                THEN \* embeds[currentPage] is undefined: setFooter throws in the executor
                     pgPhase' = "failed"
                ELSE pgPhase' = "sending"
             /\ UNCHANGED pgPromise
  /\ UNCHANGED <<pg, msg, handlers, pgEndEdit, pgClicks, pgLast, pgFailed>>
  /\ UNCHANGED notPgVars

\* channel.send resolves: the message shows the start page with its buttons, and the
\* collector is created
SendDone ==
  /\ pgPhase = "sending"
  /\ msg' = Shown(currentPage, NoUser)
  /\ pgPhase' = "active"
  /\ UNCHANGED <<pg, pgPromise, currentPage, handlers, pgEndEdit, pgClicks, pgSeq, pgLast, pgFailed>>
  /\ UNCHANGED notPgVars

\* channel.send rejects: sendPaginatedMessage catches and rejects, sendPaginatedEmbed
\* has no try around it
SendFail ==
  /\ pgPhase = "sending"
  /\ pgPhase' = "failed"
  /\ pgPromise' = IF pg.kind = "message" THEN "rejected" ELSE pgPromise
  /\ UNCHANGED <<pg, currentPage, msg, handlers, pgEndEdit, pgClicks, pgSeq, pgLast, pgFailed>>
  /\ UNCHANGED notPgVars

Handler(u, id, st, page) == [user |-> u, id |-> id, st |-> st, page |-> page]

\* a click on button id by user u reaches the collector of sendPaginatedMessage: the
\* handler runs to its first await (the refusal reply, or deferUpdate)
MsgCollect(u, id) ==
  /\ pg.kind = "message" /\ pgPhase = "active" /\ pgClicks < MaxClicks
  /\ id \in MsgButtons \cup CustomButtons(pg.custom)
  /\ pg.userId = NoUser => u = "u1"   \* without userId the user plays no role
  /\ pgClicks' = pgClicks + 1
  /\ IF MsgRefused(pg.userId, u)
     THEN /\ handlers' = handlers (+) SetToBag({Handler(u, id, "reply", NoPage)})
          /\ UNCHANGED pgSeq
     ELSE /\ handlers' = handlers (+) SetToBag({Handler(u, id, "deferUpdate", NoPage)})
          /\ pgSeq' = MsgApply(pgSeq, id, pg.n)
  /\ UNCHANGED <<pg, pgPhase, pgPromise, currentPage, msg, pgEndEdit, pgLast, pgFailed>>
  /\ UNCHANGED notPgVars

\* await interaction.reply(...) of a refused click settles; the handler returns
ReplyDone(h) ==
  /\ BagIn(h, handlers) /\ h.st = "reply"
  /\ handlers' = handlers (-) SetToBag({h})
  /\ UNCHANGED <<pg, pgPhase, pgPromise, currentPage, msg, pgEndEdit, pgClicks, pgSeq, pgLast, pgFailed>>
  /\ UNCHANGED notPgVars

\* await interaction.deferUpdate() resolves: the switch sets currentPage (r is what
\* the callback of a custom button returns) and
\* message.edit(createEditOptions(pages[currentPage], ...)) is issued; with
\* pages[currentPage] undefined createEditOptions throws and the handler ends
DeferDone(h, r) ==
  /\ BagIn(h, handlers) /\ h.st = "deferUpdate"
  /\ h.id \in MsgButtons => r = 0
  /\ LET to == IF h.id \in MsgButtons THEN MsgApply(currentPage, h.id, pg.n) ELSE r
     IN /\ currentPage' = to
        /\ pgLast' = [user |-> h.user, id |-> h.id, from |-> currentPage, to |-> to]
        /\ handlers' = IF PageAt(to, pg.n) = Undefined
                          THEN handlers (-) SetToBag({h})
                          ELSE (handlers (-) SetToBag({h}))
                                 (+) SetToBag({Handler(h.user, h.id, "edit", to)})
  /\ UNCHANGED <<pg, pgPhase, pgPromise, msg, pgEndEdit, pgClicks, pgSeq, pgFailed>>
  /\ UNCHANGED notPgVars

\* the request a handler awaits (deferUpdate, message.edit or interaction.update)
\* rejects: the handler ends there
AwaitFail(h) ==
  /\ BagIn(h, handlers) /\ h.st \in {"deferUpdate", "edit", "update"}
  /\ handlers' = handlers (-) SetToBag({h})
  /\ pgFailed' = TRUE
  /\ UNCHANGED <<pg, pgPhase, pgPromise, currentPage, msg, pgEndEdit, pgClicks, pgSeq, pgLast>>
  /\ UNCHANGED notPgVars

\* the message.edit of a handler of sendPaginatedMessage, or the interaction.update of
\* one of sendPaginatedEmbed, takes effect: the message shows the page it carries,
\* with the buttons
EditDone(h) ==
  /\ BagIn(h, handlers) /\ h.st \in {"edit", "update"}
  /\ msg' = Shown(h.page, h.user)
  /\ handlers' = handlers (-) SetToBag({h})
  /\ UNCHANGED <<pg, pgPhase, pgPromise, currentPage, pgEndEdit, pgClicks, pgSeq, pgLast, pgFailed>>
  /\ UNCHANGED notPgVars

\* a click reaches the collector of sendPaginatedEmbed: the filter, then the handler
\* up to its await of interaction.update (r is what the callback of a custom button
\* returns); with embeds[currentPage] undefined setFooter throws and the handler ends
EmbedCollect(u, id, r) ==
  /\ pg.kind = "embed" /\ pgPhase = "active" /\ pgClicks < MaxClicks
  /\ id \in EmbedButtons \cup CustomButtons(pg.custom)
  /\ pg.userId = NoUser => u = "u1"   \* without userId the user plays no role
  /\ (id \in EmbedButtons \/ EmbedRefused(pg.userId, u)) => r = 0
  /\ pgClicks' = pgClicks + 1
  /\ IF EmbedRefused(pg.userId, u)
     THEN UNCHANGED <<currentPage, pgSeq, pgLast, handlers>>
     ELSE LET to == IF id \in EmbedButtons THEN EmbedApply(currentPage, id, pg.n) ELSE r
          IN /\ currentPage' = to
             /\ pgSeq' = EmbedApply(pgSeq, id, pg.n)
             /\ pgLast' = [user |-> u, id |-> id, from |-> currentPage, to |-> to]
             /\ handlers' = IF PageAt(to, pg.n) = Undefined THEN handlers
                             ELSE handlers (+) SetToBag({Handler(u, id, "update", to)})
  /\ UNCHANGED <<pg, pgPhase, pgPromise, msg, pgEndEdit, pgFailed>>
  /\ UNCHANGED notPgVars

\* the collector's time is up: 'end' issues message.edit({components: []}) without
\* awaiting it and resolves the promise
PgTimeout ==
  /\ pgPhase = "active"
  /\ pgPhase' = "ended"
  /\ pgEndEdit' = "inflight"
  /\ pgPromise' = "resolved"
  /\ UNCHANGED <<pg, currentPage, msg, handlers, pgClicks, pgSeq, pgLast, pgFailed>>
  /\ UNCHANGED notPgVars

\* the edit of 'end' takes effect: the buttons are gone
EndEditDone ==
  /\ pgEndEdit = "inflight"
  /\ pgEndEdit' = "applied"
  /\ msg' = [msg EXCEPT !.buttons = FALSE]
  /\ UNCHANGED <<pg, pgPhase, pgPromise, currentPage, handlers, pgClicks, pgSeq, pgLast, pgFailed>>
  /\ UNCHANGED notPgVars

\* the edit of 'end' rejects: .catch(() => {})
EndEditFail ==
  /\ pgEndEdit = "inflight"
  /\ pgEndEdit' = "failed"
  /\ pgFailed' = TRUE
  /\ UNCHANGED <<pg, pgPhase, pgPromise, currentPage, msg, handlers, pgClicks, pgSeq, pgLast>>
  /\ UNCHANGED notPgVars

PgNext ==
  \/ PgCall
  \/ SendDone
  \/ SendFail
  \/ \E u \in Users, id \in MsgButtons \cup {"jump"} : MsgCollect(u, id)
  \/ \E u \in Users, id \in EmbedButtons \cup {"jump"}, r \in CallbackResults :
       EmbedCollect(u, id, r)
  \/ \E h \in BagToSet(handlers) : ReplyDone(h)
  \/ \E h \in BagToSet(handlers), r \in CallbackResults : DeferDone(h, r)
  \/ \E h \in BagToSet(handlers) : EditDone(h)
  \/ \E h \in BagToSet(handlers) : AwaitFail(h)
  \/ PgTimeout
  \/ EndEditDone
  \/ EndEditFail


(***************************************************************************)
(* Claims about the paginators                                             *)
(***************************************************************************)
PgRunning == pgPhase \in {"sending", "active", "ended"}

\* C4: in sendPaginatedMessage with pages, 0 <= startPage < pages.length and the
\* default buttons, the page index stays in [0, pages.length - 1]; 'prev' on page 0
\* and 'next' on the last page leave it where it is, and any other click moves it by
\* exactly one.
C4_MessageClamps ==
  (pg.kind = "message" /\ pg.n >= 1 /\ 0 <= pg.startPage /\ pg.startPage < pg.n /\ PgRunning
     /\ ~pg.custom)
    => /\ 0 <= currentPage /\ currentPage <= pg.n - 1
       /\ pgLast.id = "prev" =>
            pgLast.to = (IF pgLast.from = 0 THEN 0 ELSE pgLast.from - 1)
       /\ pgLast.id = "next" =>
            pgLast.to = (IF pgLast.from = pg.n - 1 THEN pg.n - 1 ELSE pgLast.from + 1)

\* 'next' was clicked on the last of three pages
C4_Witness ==
  /\ pg.kind = "message" /\ pg.n = 3 /\ pg.startPage = 1 /\ ~pg.custom
  /\ pgLast.id = "next" /\ pgLast.from = 2 /\ pgLast.to = 2

\* C5: with the userId option set, a click by any other user never changes the page
\* index and never edits the message, in both paginators: every click that was
\* applied to currentPage, every edit shown and every handler past the refusal test
\* belongs to that user.
C5_OnlyUser ==
  pg.userId # NoUser =>
    /\ pgLast.id # "none" => pgLast.user = pg.userId
    /\ msg.by \in {NoUser, pg.userId}
    /\ \A h \in BagToSet(handlers) : h.st # "reply" => h.user = pg.userId

\* another user's click is being refused while a click of the user has moved the page
C5_Witness ==
  /\ pg.userId # NoUser
  /\ \E h \in BagToSet(handlers) : h.st = "reply" /\ h.user # pg.userId
  /\ pgLast.id # "none" /\ pgLast.from # pgLast.to

\* C6: when the timeout elapses the collector ends and the promise resolves, and once
\* the message has been edited to carry no buttons it keeps no buttons and its page
\* no longer changes, however the end interleaves with handlers still awaiting
\* deferUpdate / update / edit (no API call failing).
C6_EndIsFinal ==
  /\ [](pgPhase = "ended" => pgPromise = "resolved")
  /\ [][(pgPhase = "ended" /\ pgEndEdit = "applied" /\ ~pgFailed)
          => (msg'.buttons = FALSE /\ msg'.page = msg.page)]_vars

\* C7: once all handlers have finished (no API call failing), the page index is the
\* one obtained by applying the authorized clicks one after the other in the order
\* they were collected.
C7_CollectionOrder ==
  (PgRunning /\ pgPhase # "sending" /\ handlers = EmptyBag /\ ~pgFailed
     /\ pg.n >= 1 /\ 0 <= pg.startPage /\ pg.startPage < pg.n /\ ~pg.custom)
    => currentPage = pgSeq

RECURSIVE EmbedNextTimes(_, _, _)
EmbedNextTimes(page, k, n) ==
  IF k = 0 THEN page ELSE EmbedNextTimes(EmbedApply(page, "next", n), k - 1, n)

\* C8: in sendPaginatedEmbed with n >= 1 embeds, 0 <= startPage and the default
\* buttons, 'next' and 'prev' wrap around, 'first' goes to 0 and 'last' to n - 1; the
\* index stays in [0, n - 1], n times 'next' returns to the page it started from and
\* 'next' then 'prev' is the identity.
C8_EmbedWraps ==
  (pg.kind = "embed" /\ pg.n >= 1 /\ 0 <= pg.startPage /\ PgRunning /\ ~pg.custom)
    => /\ 0 <= currentPage /\ currentPage <= pg.n - 1
       /\ pgLast.id = "next" => pgLast.to = (pgLast.from + 1) % pg.n
       /\ pgLast.id = "prev" => pgLast.to = (pgLast.from + pg.n - 1) % pg.n
       /\ pgLast.id = "first" => pgLast.to = 0
       /\ pgLast.id = "last" => pgLast.to = pg.n - 1
       /\ EmbedNextTimes(currentPage, pg.n, pg.n) = currentPage
       /\ EmbedApply(EmbedApply(currentPage, "next", pg.n), "prev", pg.n) = currentPage

\* 'next' was clicked on the last of three embeds and went to the first
C8_Witness ==
  /\ pg.kind = "embed" /\ pg.n = 3 /\ ~pg.custom
  /\ pgLast.id = "next" /\ pgLast.from = 2 /\ pgLast.to = 0

(***************************************************************************)
(* Claims about what the paginators show, their page index and promise     *)
(***************************************************************************)
\* the edits of sendPaginatedMessage's handlers that a step issues
C23_IssuedEdits == {h \in BagToSet(handlers') : h.st = "edit" /\ ~BagIn(h, handlers)}

\* C23: in sendPaginatedMessage the message shown after the send and after every
\* edit of a handler reflects the page index i it was built from, which is the
\* current page index when the send or edit is issued: its content is pages[i],
\* 'prev' is disabled exactly when i = 0, 'next' exactly when i = n - 1, the page
\* indicator is disabled and labelled i+1/n, and every custom button is enabled.
C23_ShowsCurrentPage ==
  /\ [](pg.kind = "message" /\ msg.buttons =>
          /\ (0 <= msg.page /\ msg.page < pg.n) => msg.content = msg.page
          /\ msg.components.prev = (msg.page = 0)
          /\ msg.components.next = (msg.page = pg.n - 1)
          /\ msg.components.page = TRUE
          /\ msg.components.label = <<msg.page + 1, pg.n>>
          /\ DOMAIN msg.components.extra = (IF pg.custom THEN {"jump"} ELSE {})
          /\ \A id \in DOMAIN msg.components.extra : msg.components.extra[id] = FALSE)
  /\ [][pg.kind = "message" =>
          /\ (pgPhase = "sending" /\ msg'.buttons) => msg'.page = currentPage
          /\ \A h \in C23_IssuedEdits : h.page = currentPage']_vars

\* the message was edited to the last of three pages, with a custom button
C23_Witness ==
  /\ pg.kind = "message" /\ pg.n = 3 /\ pg.custom /\ msg.buttons
  /\ msg.by = "u1" /\ msg.page = 2
  /\ msg.components.next /\ ~msg.components.prev

\* C24: in both paginators the current page index is a valid index into the pages
\* whenever a page is read for sending or editing (currentPage is read in the step
\* that sets it), for every startPage and every sequence of clicks, custom buttons
\* with callbacks returning any integer included.
C24_ValidIndex ==
  currentPage # NoPage => (0 <= currentPage /\ currentPage < pg.n)

\* C25: the promise the paginators return always eventually settles, and settles
\* once: it is rejected when the initial channel.send fails and, for
\* sendPaginatedEmbed without embeds, before anything is sent; otherwise it is
\* resolved when the collector ends.
C25_PromiseSettles ==
  /\ [](pgPhase = "failed" => pgPromise = "rejected")
  /\ [](pgPhase = "ended" => pgPromise = "resolved")
  /\ [](pgPromise = "rejected" => msg = NotSent)
  /\ [][pgPromise # "pending" => pgPromise' = pgPromise]_vars
  /\ pgPhase = "start" ~> pgPromise # "pending"

(***************************************************************************)
(* waitButton, waitSelectMenu, waitForMessage, awaitUserInput              *)
(***************************************************************************)
Pending == [st |-> "pending"]
Null == [st |-> "null"]
Item(i) == [st |-> "item", i |-> i]

\* resolve(v) of a promise: only the first call settles it
Resolve(promise, v) == IF promise = Pending THEN v ELSE promise

\* the 'end' listener of every helper: if (collected.size === 0) resolve(null)
WtOnEnd(promise, collected) == IF Len(collected) = 0 THEN Resolve(promise, Null) ELSE promise

\* max: 1
WtMax == 1

ComponentWaits == {"waitButton", "waitSelectMenu"}

\* componentType of the collector each helper creates
ComponentType(kind) == IF kind = "waitButton" THEN "button" ELSE "select"

\* what can reach the collector: component interactions (a button or a select menu,
\* of some user) for the component helpers, messages (of some author, accepted or
\* not by the caller's filter) for the message helpers
WtInputs(kind) ==
  IF kind \in ComponentWaits
  THEN [user : Users, comp : {"button", "select"}, ok : {TRUE}]
  ELSE [user : Users, comp : {"message"}, ok : BOOLEAN]

\* the filter option each helper passes to its collector (with the collector's own
\* test of componentType)
WtFilterAnyUser(call, it) ==
  CASE call.kind \in ComponentWaits -> it.comp = ComponentType(call.kind)
    [] call.kind = "waitForMessage" -> it.ok
    [] OTHER -> call.hasFilter => it.ok

WtFilter(call, it) ==
  CASE call.kind \in ComponentWaits ->
         it.comp = ComponentType(call.kind) /\ it.user = call.user
    [] call.kind = "waitForMessage" -> it.ok
    [] OTHER -> it.user = call.user /\ (call.hasFilter => it.ok)

\* the 'collect' listener of each helper: what it resolves the promise with
WtOnCollect(call, it, i) ==
  CASE call.kind = "waitButton" -> IF it.comp = "button" THEN Item(i) ELSE Null
    [] call.kind = "waitSelectMenu" -> IF it.comp = "select" THEN Item(i) ELSE Null
    [] OTHER -> Item(i)

WtCalls ==
  [kind : ComponentWaits, user : {"u1"}, hasFilter : {FALSE}, hasCollector : {TRUE}]
    \cup [kind : {"waitForMessage"}, user : {NoUser}, hasFilter : {TRUE}, hasCollector : BOOLEAN]
    \cup [kind : {"awaitUserInput"}, user : {"u1"}, hasFilter : BOOLEAN, hasCollector : {TRUE}]

WtBlank(call) ==
  /\ wt = call
  /\ wtItems = <<>>
  /\ wtCollected = <<>>
  /\ \/ call.hasCollector /\ wtPhase = "collecting" /\ wtResult = Pending
     \/ ~call.hasCollector /\ wtPhase = "none" /\ wtResult = Null

\* the helpers are not in use
WtIdle ==
  /\ wt = [kind |-> "waitForMessage", user |-> NoUser, hasFilter |-> TRUE, hasCollector |-> FALSE]
  /\ wtItems = <<>>
  /\ wtCollected = <<>>
  /\ wtPhase = "none"
  /\ wtResult = Null

\* the state after the promise executor has run: the collector is created with
\* max: 1 and time: timeout (waitForMessage without createMessageCollector resolves
\* null at once)
WtStart == \E call \in WtCalls : WtBlank(call)

\* an interaction / message reaches the running collector: if the filter accepts it,
\* it is collected, 'collect' is emitted, and with max: 1 reached the collector ends
\* and emits 'end' with the collection
WtArrive(it) ==
  /\ wtPhase = "collecting" /\ Len(wtItems) < MaxItems
  /\ wtItems' = Append(wtItems, it)
  /\ IF WtFilter(wt, it)
     THEN LET i == Len(wtItems) + 1
              collected == Append(wtCollected, i)
              afterCollect == Resolve(wtResult, WtOnCollect(wt, it, i))
          IN /\ wtCollected' = collected
             /\ IF Len(collected) >= WtMax
                THEN wtPhase' = "ended" /\ wtResult' = WtOnEnd(afterCollect, collected)
                ELSE wtPhase' = wtPhase /\ wtResult' = afterCollect
     ELSE UNCHANGED <<wtCollected, wtPhase, wtResult>>
  /\ UNCHANGED wt
  /\ UNCHANGED notWtVars

\* the collector's time is up: 'end' is emitted with the collection
WtTimeout ==
  /\ wtPhase = "collecting"
  /\ wtPhase' = "ended"
  /\ wtResult' = WtOnEnd(wtResult, wtCollected)
  /\ UNCHANGED <<wt, wtItems, wtCollected>>
  /\ UNCHANGED notWtVars

WtNext ==
  \/ \E it \in WtInputs(wt.kind) : WtArrive(it)
  \/ WtTimeout

(***************************************************************************)
(* interactiveConfirm                                                      *)
(***************************************************************************)
ConfirmIds == {"confirm", "cancel", "other"}

\* the filter given to awaitMessageComponent
CfFilterAnyUser(user, click) == click.id \in {"confirm", "cancel"}

CfFilter(user, click) == click.user = user /\ click.id \in {"confirm", "cancel"}

\* return interaction.customId === 'confirm'
CfReturn(id) == id = "confirm"

CfBlank(call) ==
  /\ cf = call
  /\ cfPhase = "start"
  /\ cfSeen = <<>>
  /\ cfPick = "none"
  /\ cfButtons = FALSE
  /\ cfResult = "none"

\* interactiveConfirm is not in use
CfIdle == CfBlank([user |-> "u1", sendable |-> FALSE])

CfStart == \E sendable \in BOOLEAN : CfBlank([user |-> "u1", sendable |-> sendable])

\* the function up to await channel.send(...); a channel without send throws
CfCall ==
  /\ cfPhase = "start"
  /\ cfPhase' = IF cf.sendable THEN "send" ELSE "thrown"
  /\ UNCHANGED <<cf, cfSeen, cfPick, cfButtons, cfResult>>
  /\ UNCHANGED notCfVars

\* channel.send resolves: the message is there with its buttons, and
\* awaitMessageComponent starts its DEFAULT_TIMEOUT window
CfSendDone ==
  /\ cfPhase = "send"
  /\ cfPhase' = "wait"
  /\ cfButtons' = TRUE
  /\ UNCHANGED <<cf, cfSeen, cfPick, cfResult>>
  /\ UNCHANGED notCfVars

\* channel.send rejects, outside the try
CfSendFail ==
  /\ cfPhase = "send"
  /\ cfPhase' = "thrown"
  /\ UNCHANGED <<cf, cfSeen, cfPick, cfButtons, cfResult>>
  /\ UNCHANGED notCfVars

\* a click on the message during the window: the first the filter accepts resolves
\* awaitMessageComponent, and interaction.update({components: []}) is issued
CfClick(click) ==
  /\ cfPhase = "wait" /\ Len(cfSeen) < MaxConfirmClicks
  /\ cfSeen' = Append(cfSeen, click)
  /\ IF CfFilter(cf.user, click)
     THEN cfPhase' = "update" /\ cfPick' = click.id
     ELSE UNCHANGED <<cfPhase, cfPick>>
  /\ UNCHANGED <<cf, cfButtons, cfResult>>
  /\ UNCHANGED notCfVars

\* the window ends with nothing collected: awaitMessageComponent rejects, and the
\* catch issues sentMessage.edit({components: []})
CfTimeout ==
  /\ cfPhase = "wait"
  /\ cfPhase' = "edit"
  /\ UNCHANGED <<cf, cfSeen, cfPick, cfButtons, cfResult>>
  /\ UNCHANGED notCfVars

\* interaction.update resolves: the buttons are gone, the function returns
CfUpdateDone ==
  /\ cfPhase = "update"
  /\ cfButtons' = FALSE
  /\ cfPhase' = "returned"
  /\ cfResult' = CfReturn(cfPick)
  /\ UNCHANGED <<cf, cfSeen, cfPick>>
  /\ UNCHANGED notCfVars

\* interaction.update rejects inside the try: the catch issues sentMessage.edit
CfUpdateFail ==
  /\ cfPhase = "update"
  /\ cfPhase' = "edit"
  /\ UNCHANGED <<cf, cfSeen, cfPick, cfButtons, cfResult>>
  /\ UNCHANGED notCfVars

\* sentMessage.edit of the catch resolves: the buttons are gone, return false
CfEditDone ==
  /\ cfPhase = "edit"
  /\ cfButtons' = FALSE
  /\ cfPhase' = "returned"
  /\ cfResult' = FALSE
  /\ UNCHANGED <<cf, cfSeen, cfPick>>
  /\ UNCHANGED notCfVars

\* sentMessage.edit of the catch rejects: interactiveConfirm rejects
CfEditFail ==
  /\ cfPhase = "edit"
  /\ cfPhase' = "thrown"
  /\ UNCHANGED <<cf, cfSeen, cfPick, cfButtons, cfResult>>
  /\ UNCHANGED notCfVars

CfNext ==
  \/ CfCall
  \/ CfSendDone
  \/ CfSendFail
  \/ \E u \in Users, id \in ConfirmIds : CfClick([user |-> u, id |-> id])
  \/ CfTimeout
  \/ CfUpdateDone
  \/ CfUpdateFail
  \/ CfEditDone
  \/ CfEditFail

(***************************************************************************)
(* Claims about the wait helpers                                           *)
(***************************************************************************)
\* an item the claim calls matching: produced by the awaited user (a component of
\* the awaited type) or accepted by the filter
C9_Matching(it) ==
  CASE wt.kind = "waitButton" -> it.user = wt.user /\ it.comp = "button"
    [] wt.kind = "waitSelectMenu" -> it.user = wt.user /\ it.comp = "select"
    [] wt.kind = "waitForMessage" -> it.ok
    [] OTHER -> it.user = wt.user /\ (wt.hasFilter => it.ok)

C9_Matches == {i \in 1..Len(wtItems) : C9_Matching(wtItems[i])}

C9_Inv ==
  /\ C9_Matches # {} =>
       /\ wtResult.st = "item"
       /\ wtResult.i \in C9_Matches
       /\ \A j \in C9_Matches : wtResult.i <= j
  /\ C9_Matches = {} =>
       /\ wtResult \in {Pending, Null}
       /\ wtResult = Null <=> wtPhase # "collecting"
       /\ wtCollected = <<>>
  /\ wtPhase = "ended" => wtResult # Pending

\* C9: the wait helpers resolve with the first matching item of the awaited user (or
\* accepted by the filter), with null when the collector's time ends with nothing
\* collected; items of other users neither resolve the promise nor use up the single
\* slot; the promise always settles, and once settled its value is not replaced.
C9_WaitResolves ==
  /\ []C9_Inv
  /\ [][wtResult # Pending => wtResult' = wtResult]_vars
  /\ <>(wtResult # Pending)

\* waitButton resolved with the awaited user's button, the second item to arrive
\* after a button of another user
C9_Witness ==
  /\ wt.kind = "waitButton"
  /\ Len(wtItems) = 2 /\ wtItems[1].user # wt.user /\ wtItems[1].comp = "button"
  /\ wtResult = Item(2)

(***************************************************************************)
(* Claims about interactiveConfirm                                         *)
(***************************************************************************)
\* the clicks of the user on 'confirm' or 'cancel', as indexes into cfSeen
C10_Presses ==
  {i \in 1..Len(cfSeen) : cfSeen[i].user = cf.user /\ cfSeen[i].id \in {"confirm", "cancel"}}

\* C10: interactiveConfirm returns true if the user pressed 'confirm' within the
\* window, false if the user pressed 'cancel' or the window timed out; other clicks
\* are ignored; the buttons are removed from the message before the function returns.
C10_ConfirmResult ==
  cfPhase = "returned" =>
    /\ cfResult = (\E i \in C10_Presses : cfSeen[i].id = "confirm")
    /\ ~cfButtons

(***************************************************************************)
(* deferOrReply                                                            *)
(***************************************************************************)
\* the content argument: a string, or an object whose content and ephemeral may be
\* left out
DfContents ==
  [isString : {TRUE}, text : {"", "hi"}, ephemeral : {"unset"}]
    \cup [isString : {FALSE}, text : {"unset", "", "hi"}, ephemeral : {"unset", "true", "false"}]

\* const ephemeral = typeof content === 'object' ? content.ephemeral ?? false : false
DfEphemeral(content) == IF content.isString THEN FALSE ELSE content.ephemeral = "true"

\* const message = typeof content === 'string' ? content : content.content ?? ''
DfMessage(content) ==
  IF content.isString THEN content.text
  ELSE IF content.text = "unset" THEN "" ELSE content.text

\* the branch deferOrReply takes: which method of the interaction it calls
DfChooseRepliedFirst(ia, message) ==
  IF ia.replied THEN "followUp"
  ELSE IF ia.deferred THEN "editReply"
  ELSE IF message # "" THEN "reply"
  ELSE "deferReply"

DfChoose(ia, message) ==
  IF ia.deferred THEN "editReply"
  ELSE IF ia.replied THEN "followUp"
  ELSE IF message # "" THEN "reply"
  ELSE "deferReply"

\* the arguments of that call: editReply gets the message alone, the others the
\* ephemeral flag, and deferReply no content
DfArgsDeferWithoutFlag(api, message, ephemeral) ==
  [api |-> api,
   message |-> IF api = "deferReply" THEN "none" ELSE message,
   ephemeral |-> IF api \in {"editReply", "deferReply"} THEN "none"
                 ELSE IF ephemeral THEN "true" ELSE "false"]

DfArgs(api, message, ephemeral) ==
  [api |-> api,
   message |-> IF api = "deferReply" THEN "none" ELSE message,
   ephemeral |-> IF api = "editReply" THEN "none" ELSE IF ephemeral THEN "true" ELSE "false"]

\* what a call that succeeded leaves in the interaction: deferReply sets deferred,
\* reply and editReply set replied, followUp sets nothing
DfAfter(ia, api) ==
  CASE api = "deferReply" -> [ia EXCEPT !.deferred = TRUE]
    [] api = "reply" -> [ia EXCEPT !.replied = TRUE]
    [] api = "editReply" -> [ia EXCEPT !.replied = TRUE]
    [] OTHER -> ia

DfBlank(ia) ==
  /\ df = ia
  /\ interaction = ia
  /\ dfLog = <<>>

\* deferOrReply is not in use
DfIdle == DfBlank([deferred |-> FALSE, replied |-> FALSE])

\* an interaction in any state it can be handed over in
DfStart == \E d \in BOOLEAN, r \in BOOLEAN : DfBlank([deferred |-> d, replied |-> r])

\* one awaited deferOrReply(interaction, content); ok is whether the API call
\* succeeded (a failure is swallowed by the catch and leaves the interaction as it was)
DeferOrReply(content, ok) ==
  /\ Len(dfLog) < MaxCalls
  /\ LET message == DfMessage(content)
         api == DfChoose(interaction, message)
     IN /\ dfLog' = Append(dfLog, DfArgs(api, message, DfEphemeral(content)) @@
                                    [ok |-> ok, content |-> content, before |-> interaction])
        /\ interaction' = IF ok THEN DfAfter(interaction, api) ELSE interaction
  /\ UNCHANGED df
  /\ UNCHANGED notDfVars

DfNext == \E content \in DfContents, ok \in BOOLEAN : DeferOrReply(content, ok)

(***************************************************************************)
(* Claims about deferOrReply                                               *)
(***************************************************************************)
C11_Fresh == ~df.deferred /\ ~df.replied
C11_AllOk == \A i \in 1..Len(dfLog) : dfLog[i].ok

\* C11: in a sequence of awaited, succeeding deferOrReply calls on a fresh
\* interaction the first call issues the initial response (deferReply for empty
\* content, reply otherwise) and no later call does: after a deferReply every later
\* call is an editReply, after a reply every later call is a followUp.
C11_InitialResponseOnce ==
  (C11_Fresh /\ C11_AllOk /\ Len(dfLog) >= 1) =>
    /\ dfLog[1].api = (IF DfMessage(dfLog[1].content) = "" THEN "deferReply" ELSE "reply")
    /\ \A i \in 2..Len(dfLog) :
         dfLog[i].api = (IF dfLog[1].api = "deferReply" THEN "editReply" ELSE "followUp")
    /\ Cardinality({i \in 1..Len(dfLog) : dfLog[i].api \in {"reply", "deferReply"}}) = 1

\* three calls that succeeded: a defer and two edits of the deferred reply
C11_Witness ==
  /\ C11_Fresh /\ C11_AllOk /\ Len(dfLog) = 3
  /\ dfLog[1].api = "deferReply" /\ dfLog[3].api = "editReply"

\* the method the state of the interaction and the content call for
C26_Api(before, content) ==
  IF before.deferred THEN "editReply"
  ELSE IF before.replied THEN "followUp"
  ELSE IF content.text \in {"unset", ""} THEN "deferReply"
  ELSE "reply"

\* the ephemeral flag of the content: false for a string and when left out
C26_Flag(content) ==
  IF ~content.isString /\ content.ephemeral = "true" THEN "true" ELSE "false"

\* C26: every deferOrReply call issues exactly one API call, chosen from the state
\* of the interaction: editReply if it is deferred, else followUp if it is replied,
\* else reply if the content is not empty, else deferReply; followUp, reply and
\* deferReply are passed the ephemeral flag of the content object (false for a
\* string).
C26_OneCallByState ==
  /\ [](\A i \in 1..Len(dfLog) :
         /\ dfLog[i].api = C26_Api(dfLog[i].before, dfLog[i].content)
         /\ dfLog[i].api \in {"followUp", "reply", "deferReply"}
              => dfLog[i].ephemeral = C26_Flag(dfLog[i].content))
  /\ [][Len(dfLog') = Len(dfLog) + 1 /\ SubSeq(dfLog', 1, Len(dfLog)) = dfLog]_vars

\* a deferReply with the flag set failed, a reply with the flag set followed, and a
\* followUp with a string went without it
C26_Witness ==
  /\ Len(dfLog) = 3
  /\ dfLog[1].api = "deferReply" /\ dfLog[1].ephemeral = "true" /\ ~dfLog[1].ok
  /\ dfLog[2].api = "reply" /\ dfLog[2].ephemeral = "true"
  /\ dfLog[3].api = "followUp" /\ dfLog[3].content.isString /\ dfLog[3].ephemeral = "false"

(***************************************************************************)
(* fetchAllMessages                                                        *)
(***************************************************************************)
\* messages asked for in one request at most
PageSize == 100
NoId == 0

\* a channel of n messages has the ids n (newest) down to 1 (oldest);
\* channel.messages.fetch({limit, before}): the newest messages older than before,
\* at most limit of them, newest first
ChannelFetch(n, limit, before) ==
  LET top == IF before = NoId THEN n ELSE before - 1
      k == Min(limit, top)
  IN [i \in 1..k |-> top - i + 1]

\* lastId = messages.last()?.id
FmLastIdFirst(messages) == messages[1]

FmLastId(messages) == messages[Len(messages)]

\* the channels and limits of a call: a channel that is not text based has no messages
FmCalls ==
  [n : 0..MaxMessages, limit : 0..MaxMessages, textBased : {TRUE}]
    \cup [n : {0}, limit : 0..MaxMessages, textBased : {FALSE}]

FmBlank(call, phase) ==
  /\ fm = call
  /\ fmPhase = phase
  /\ allMessages = <<>>
  /\ remainingLimit = call.limit
  /\ lastId = NoId
  /\ fmLog = <<>>

\* fetchAllMessages is not in use
FmIdle == FmBlank([n |-> 0, limit |-> 0, textBased |-> FALSE], "idle")

\* fetchAllMessages(channel, limit) was called
FmStart == \E call \in FmCalls : FmBlank(call, "running")

\* if (!channel.isTextBased()) return allMessages
FmNotText ==
  /\ fmPhase = "running" /\ ~fm.textBased
  /\ fmPhase' = "done"
  /\ UNCHANGED <<fm, allMessages, remainingLimit, lastId, fmLog>>
  /\ UNCHANGED notFmVars

\* one turn of the loop: a request and what is done with its answer
FmFetch ==
  /\ fmPhase = "running" /\ fm.textBased /\ remainingLimit > 0
  /\ LET fetchLimit == Min(remainingLimit, PageSize)
         messages == ChannelFetch(fm.n, fetchLimit, lastId)
     IN /\ fmLog' = Append(fmLog, [limit |-> fetchLimit, before |-> lastId,
                                   size |-> Len(messages)])
        /\ IF Len(messages) = 0
             THEN /\ fmPhase' = "done"
                  /\ UNCHANGED <<allMessages, remainingLimit, lastId>>
             ELSE /\ allMessages' = allMessages \o messages
                  /\ remainingLimit' = remainingLimit - Len(messages)
                  /\ lastId' = FmLastId(messages)
                  /\ UNCHANGED fmPhase
  /\ UNCHANGED fm
  /\ UNCHANGED notFmVars

\* the loop ends with remainingLimit used up: return allMessages
FmReturn ==
  /\ fmPhase = "running" /\ fm.textBased /\ remainingLimit <= 0
  /\ fmPhase' = "done"
  /\ UNCHANGED <<fm, allMessages, remainingLimit, lastId, fmLog>>
  /\ UNCHANGED notFmVars

FmNext == FmNotText \/ FmFetch \/ FmReturn

(***************************************************************************)
(* Claims about fetchAllMessages                                           *)
(***************************************************************************)
\* messages received before request k
RECURSIVE C12_Received(_)
C12_Received(k) == IF k = 0 THEN 0 ELSE C12_Received(k - 1) + fmLog[k].size

\* C12: on a static channel of N messages fetchAllMessages returns exactly
\* min(limit, N) messages, the newest ones, newest first, none twice and none
\* skipped; every request asks for min(remaining, 100) messages and, after the
\* first, continues before the id of the last message of the previous batch.
C12_FetchAll ==
  /\ \A k \in 1..Len(fmLog) :
       /\ fmLog[k].limit = Min(fm.limit - C12_Received(k - 1), 100)
       /\ fmLog[k].before = (IF k = 1 THEN NoId ELSE fm.n - C12_Received(k - 1) + 1)
  /\ fmPhase = "done" =>
       /\ Len(allMessages) = Min(fm.limit, fm.n)
       /\ \A i \in 1..Len(allMessages) : allMessages[i] = fm.n - i + 1

\* a call that took three requests and returned as many messages as it was asked for
C12_Witness ==
  /\ fmPhase = "done" /\ Len(fmLog) = 3
  /\ fm.n >= fm.limit /\ Len(allMessages) = fm.limit

(***************************************************************************)
(* addMemberRole, removeMemberRole, bulkRoleManager (one role)             *)
(***************************************************************************)
Members == {"m1", "m2"}
RoleActions == {"add", "remove"}

\* does the helper call the API: addMemberRole unless member.roles.cache has the
\* role, removeMemberRole only if it has
AddCallsAlways(m) == TRUE

AddCalls(m) == ~roleCache[m]
RemoveCalls(m) == roleCache[m]
RoleCalls(action, m) == IF action = "add" THEN AddCalls(m) ELSE RemoveCalls(m)

\* what the helper returns ("throw" for a rejection); ok is the outcome of the API
\* call, if one is made
RoleReturnStrict(action, m, throwError, ok) ==
  IF ~RoleCalls(action, m) THEN "false"
  ELSE IF ok THEN "true"
  ELSE IF throwError THEN "throw" ELSE "false"

RoleReturn(action, m, throwError, ok) ==
  IF ~RoleCalls(action, m) THEN "true"
  ELSE IF ok THEN "true"
  ELSE IF throwError THEN "throw" ELSE "false"

\* member.roles.add / member.roles.remove that succeeded changes the member's roles
\* in the guild; the roles cache of the member object is not touched by the call
RoleServerAfter(action, m, ok) ==
  IF RoleCalls(action, m) /\ ok THEN [roleServer EXCEPT ![m] = (action = "add")]
  ELSE roleServer

\* history entry of one helper call
RoleEntry(action, m, throwError, ok) ==
  [action |-> action, member |-> m, throwError |-> throwError,
   called |-> RoleCalls(action, m),
   ok |-> RoleCalls(action, m) /\ ok,
   ret |-> RoleReturn(action, m, throwError, ok),
   cacheBefore |-> roleCache[m],
   serverBefore |-> roleServer[m],
   serverAfter |-> RoleServerAfter(action, m, ok)[m]]

\* the helper called on member m
MemberRole(action, m, throwError, ok) ==
  /\ roleServer' = RoleServerAfter(action, m, ok)
  /\ rlLog' = Append(rlLog, RoleEntry(action, m, throwError, ok))
  /\ UNCHANGED roleCache

NoBulk == [action |-> "add", members |-> <<>>, continueOnError |-> TRUE, trackErrors |-> FALSE]
NoError == 0
NoResult == [success |-> 0, failed |-> 0, errors |-> <<>>, hasErrors |-> FALSE]

BkBlank(call, phase) ==
  /\ bk = call
  /\ bkPhase = phase
  /\ bkIdx = 1
  /\ successCount = 0
  /\ failedCount = 0
  /\ errors = <<>>
  /\ bkResult = NoResult
  /\ bkError = NoError
  /\ rlLog = <<>>

\* the role helpers are not in use
RlIdle ==
  /\ roleServer = [m \in Members |-> FALSE]
  /\ roleCache = roleServer
  /\ BkBlank(NoBulk, "idle")

\* members fetched from the guild: the cache shows the roles they have
RlStart ==
  /\ roleServer \in [Members -> BOOLEAN]
  /\ roleCache = roleServer
  /\ BkBlank(NoBulk, "idle")

\* the gateway's member update reaches the client: the cache of the member shows
\* the roles the member has
RoleSync(m) ==
  /\ roleCache[m] # roleServer[m]
  /\ roleCache' = [roleCache EXCEPT ![m] = roleServer[m]]
  /\ UNCHANGED <<roleServer, rlLog, bk, bkPhase, bkIdx, successCount, failedCount, errors,
                 bkResult, bkError>>
  /\ UNCHANGED notRlVars

\* one awaited addMemberRole(member, role, {throwError})
AddMemberRole(m, throwError, ok) ==
  /\ bkPhase = "idle" /\ Len(rlLog) < MaxRoleCalls
  /\ MemberRole("add", m, throwError, ok)
  /\ UNCHANGED <<bk, bkPhase, bkIdx, successCount, failedCount, errors, bkResult, bkError>>
  /\ UNCHANGED notRlVars

\* one awaited removeMemberRole(member, role, {throwError})
RemoveMemberRole(m, throwError, ok) ==
  /\ bkPhase = "idle" /\ Len(rlLog) < MaxRoleCalls
  /\ MemberRole("remove", m, throwError, ok)
  /\ UNCHANGED <<bk, bkPhase, bkIdx, successCount, failedCount, errors, bkResult, bkError>>
  /\ UNCHANGED notRlVars

RlNext ==
  \/ \E m \in Members, throwError \in BOOLEAN, ok \in BOOLEAN : AddMemberRole(m, throwError, ok)
  \/ \E m \in Members, throwError \in BOOLEAN, ok \in BOOLEAN : RemoveMemberRole(m, throwError, ok)
  \/ \E m \in Members : RoleSync(m)

\* the arrays of members: every array over Members of at most MaxMembers entries
BkArrays == UNION {[1..k -> Members] : k \in 0..MaxMembers}

BkCalls ==
  [action : RoleActions, members : BkArrays, continueOnError : BOOLEAN, trackErrors : BOOLEAN]

\* bulkRoleManager(role, members, action, options) was called
BkStart ==
  /\ roleServer \in [Members -> BOOLEAN]
  /\ roleCache = roleServer
  /\ \E call \in BkCalls : BkBlank(call, "running")

\* throwError: !continueOnError
BkThrowErrorNever(continueOnError) == FALSE

BkThrowError(continueOnError) == ~continueOnError

\* one turn of the loop over members: the helper call and the counting
BulkMember(ok) ==
  /\ bkPhase = "running" /\ bkIdx <= Len(bk.members)
  /\ LET m == bk.members[bkIdx]
         ret == RoleReturn(bk.action, m, BkThrowError(bk.continueOnError), ok)
     IN /\ MemberRole(bk.action, m, BkThrowError(bk.continueOnError), ok)
        /\ successCount' = IF ret = "true" THEN successCount + 1 ELSE successCount
        /\ failedCount' = IF ret = "true" THEN failedCount ELSE failedCount + 1
        /\ errors' = IF ret = "throw" /\ bk.trackErrors THEN Append(errors, bkIdx) ELSE errors
        /\ IF ret = "throw" /\ ~bk.continueOnError
             THEN /\ bkPhase' = "rejected"
                  /\ bkError' = bkIdx
                  /\ UNCHANGED bkIdx
             ELSE /\ bkIdx' = bkIdx + 1
                  /\ UNCHANGED <<bkPhase, bkError>>
  /\ UNCHANGED <<bk, bkResult>>
  /\ UNCHANGED notRlVars

\* after the loop: return {success, failed, errors if tracked and any}
BulkReturn ==
  /\ bkPhase = "running" /\ bkIdx > Len(bk.members)
  /\ bkPhase' = "resolved"
  /\ bkResult' = [success |-> successCount, failed |-> failedCount,
                  errors |-> IF bk.trackErrors /\ Len(errors) > 0 THEN errors ELSE <<>>,
                  hasErrors |-> bk.trackErrors /\ Len(errors) > 0]
  /\ UNCHANGED <<roleCache, roleServer, rlLog, bk, bkIdx, successCount, failedCount, errors,
                 bkError>>
  /\ UNCHANGED notRlVars

BkNext ==
  \/ \E ok \in BOOLEAN : BulkMember(ok)
  \/ BulkReturn
  \/ \E m \in Members : RoleSync(m)

(***************************************************************************)
(* Claims about bulkRoleManager                                            *)
(***************************************************************************)
\* the calls of the history whose member ended in the requested state: the API call
\* succeeded, or none was needed
C13_Succeeded == {i \in 1..Len(rlLog) : rlLog[i].ok \/ ~rlLog[i].called}
C13_InOrder == \A i \in 1..Len(rlLog) : rlLog[i].member = bk.members[i]

\* C13: with continueOnError true bulkRoleManager never rejects, attempts every
\* member exactly once in array order, and returns success + failed =
\* members.length with success the number of members whose add or remove succeeded
\* or who were already in the requested state.
C13_ContinueOnError ==
  (bkPhase # "idle" /\ bk.continueOnError) =>
    /\ bkPhase # "rejected"
    /\ Len(rlLog) <= Len(bk.members) /\ C13_InOrder
    /\ bkPhase = "resolved" =>
         /\ Len(rlLog) = Len(bk.members)
         /\ bkResult.success + bkResult.failed = Len(bk.members)
         /\ bkResult.success = Cardinality(C13_Succeeded)

\* a run over three members with a success, a failure and a member already in the
\* requested state
C13_Witness ==
  /\ bkPhase = "resolved" /\ bk.continueOnError /\ Len(bk.members) = 3
  /\ bkResult.success = 2 /\ bkResult.failed = 1
  /\ \E i \in 1..3 : ~rlLog[i].called
  /\ \E i \in 1..3 : rlLog[i].ok

C14_Failures == {i \in 1..Len(rlLog) : rlLog[i].called /\ ~rlLog[i].ok}

\* C14: with continueOnError false bulkRoleManager stops at the first member whose
\* call fails: it rejects with that member's error, attempts no later member, and
\* the changes made for earlier members stay.
C14_StopAtFirstFailure ==
  (bkPhase # "idle" /\ ~bk.continueOnError) =>
    /\ C13_InOrder
    /\ C14_Failures # {} =>
         /\ bkPhase = "rejected"
         /\ C14_Failures = {Len(rlLog)}
         /\ bkError = Len(rlLog)
         /\ \A i \in 1..Len(rlLog) - 1 :
              rlLog[i].ok => roleServer[rlLog[i].member] = (bk.action = "add")
    /\ bkPhase = "rejected" => C14_Failures # {}

\* the second of three members fails after the first was changed
C14_Witness ==
  /\ bkPhase = "rejected" /\ ~bk.continueOnError /\ Len(bk.members) = 3
  /\ Len(rlLog) = 2 /\ rlLog[1].ok /\ bkError = 2

(***************************************************************************)
(* Claims about addMemberRole and removeMemberRole                         *)
(***************************************************************************)
\* call i+1 follows call i on the same member
C15_Pair(i, first, second) ==
  /\ i + 1 <= Len(rlLog)
  /\ rlLog[i].member = rlLog[i + 1].member
  /\ rlLog[i].action = first /\ rlLog[i].ret = "true"
  /\ rlLog[i + 1].action = second /\ rlLog[i + 1].ret = "true"

\* the cache of the member showed the member's roles when call i was made
C15_CacheFresh(i) == rlLog[i].cacheBefore = rlLog[i].serverBefore

\* each call by itself: no API call and true when the cache already shows the
\* requested state, else one API call; true when it succeeds, and when it fails
\* false or, with throwError, the error
C15_EachCall ==
  \A i \in 1..Len(rlLog) :
    LET e == rlLog[i] IN
    /\ e.called = (IF e.action = "add" THEN ~e.cacheBefore ELSE e.cacheBefore)
    /\ ~e.called => e.ret = "true" /\ e.serverAfter = e.serverBefore
    /\ (e.called /\ e.ok) => e.ret = "true" /\ e.serverAfter = (e.action = "add")
    /\ (e.called /\ ~e.ok) =>
         /\ e.ret = (IF e.throwError THEN "throw" ELSE "false")
         /\ e.serverAfter = e.serverBefore

\* repeating a call that returned true changes nothing
C15_Idempotent ==
  \A i \in 1..Len(rlLog), a \in RoleActions :
    C15_Pair(i, a, a) => rlLog[i + 1].serverAfter = rlLog[i].serverAfter

\* C15 (as stated): each call behaves as C15_EachCall says, repeating a call is
\* idempotent, and an add that returned true followed by a remove that returned
\* true leaves the member's roles as they were before the add.
C15_AsStated ==
  /\ C15_EachCall
  /\ C15_Idempotent
  /\ \A i \in 1..Len(rlLog) :
       C15_Pair(i, "add", "remove") => rlLog[i + 1].serverAfter = rlLog[i].serverBefore

\* C15 (amended): each call behaves as C15_EachCall says with "has the role" read
\* as member.roles.cache.has(role); when the cache showed the member's roles at the
\* first call, repeating a call that returned true changes nothing; when it showed
\* them at both calls, an add that returned true followed by a remove that returned
\* true leaves the member without the role, which is the state before the add
\* exactly when the member did not have the role then.
C15_AddThenRemove ==
  /\ C15_EachCall
  /\ \A i \in 1..Len(rlLog), a \in RoleActions :
       (C15_Pair(i, a, a) /\ C15_CacheFresh(i)) =>
         rlLog[i + 1].serverAfter = rlLog[i].serverAfter
  /\ \A i \in 1..Len(rlLog) :
       (C15_Pair(i, "add", "remove") /\ C15_CacheFresh(i) /\ C15_CacheFresh(i + 1)) =>
         /\ ~rlLog[i + 1].serverAfter
         /\ (rlLog[i + 1].serverAfter = rlLog[i].serverBefore) <=> ~rlLog[i].serverBefore

\* a member who had the role: the add does nothing, the remove that follows takes
\* the role away
C15_Witness ==
  /\ Len(rlLog) >= 2 /\ C15_Pair(1, "add", "remove")
  /\ C15_CacheFresh(1) /\ C15_CacheFresh(2)
  /\ rlLog[1].serverBefore /\ ~rlLog[1].called /\ rlLog[2].ok

(***************************************************************************)
(* splitLongMessage (a string is the sequence of its characters)           *)
(***************************************************************************)
NoCall == [fn |-> "none"]
NoRet == <<>>

\* no function call is under way
FnIdle ==
  /\ fnCall = NoCall
  /\ fnRet = NoRet
  /\ fnDone = FALSE

\* a function was called with the arguments in call
FnCalled(call) ==
  /\ fnCall = call
  /\ fnRet = NoRet
  /\ fnDone = FALSE

\* the function returns ret
FnReturn(ret) ==
  /\ ~fnDone
  /\ fnRet' = ret
  /\ fnDone' = TRUE
  /\ UNCHANGED fnCall
  /\ UNCHANGED notFnVars

Chars == {"a", "\n"}
Texts == UNION {[1..k -> Chars] : k \in 0..MaxText}

\* text.split('\n')
RECURSIVE SplitLines(_)
SplitLines(text) ==
  IF \A i \in 1..Len(text) : text[i] # "\n" THEN <<text>>
  ELSE LET i == CHOOSE j \in 1..Len(text) :
                  text[j] = "\n" /\ \A k \in 1..(j - 1) : text[k] # "\n"
       IN <<SubSeq(text, 1, i - 1)>> \o SplitLines(SubSeq(text, i + 1, Len(text)))

\* the while loop over a line longer than maxLength: segments of maxLength
\* characters are pushed, what is left becomes currentChunk
RECURSIVE SplitSegments(_, _, _)
SplitSegments(chunks, remainingLine, maxLength) ==
  IF Len(remainingLine) > maxLength
    THEN SplitSegments(Append(chunks, SubSeq(remainingLine, 1, maxLength)),
                       SubSeq(remainingLine, maxLength + 1, Len(remainingLine)), maxLength)
    ELSE [chunks |-> chunks, currentChunk |-> remainingLine]

\* currentChunk.length + line.length + 1 > maxLength
SplitOverflowsLate(currentChunk, line, maxLength) ==
  Len(currentChunk) + Len(line) > maxLength

SplitOverflows(currentChunk, line, maxLength) ==
  Len(currentChunk) + Len(line) + 1 > maxLength

\* the body of the loop over lines
SplitLine(st, line, maxLength) ==
  IF Len(line) > maxLength
    THEN SplitSegments(IF Len(st.currentChunk) > 0 THEN Append(st.chunks, st.currentChunk)
                       ELSE st.chunks,
                       line, maxLength)
  ELSE IF SplitOverflows(st.currentChunk, line, maxLength)
    THEN [chunks |-> Append(st.chunks, st.currentChunk), currentChunk |-> line]
  ELSE [chunks |-> st.chunks,
        currentChunk |-> IF Len(st.currentChunk) > 0 THEN st.currentChunk \o <<"\n">> \o line
                         ELSE line]

RECURSIVE SplitLoop(_, _, _, _)
SplitLoop(st, lines, i, maxLength) ==
  IF i > Len(lines) THEN st
  ELSE SplitLoop(SplitLine(st, lines[i], maxLength), lines, i + 1, maxLength)

splitLongMessage(text, maxLength) ==
  IF Len(text) <= maxLength THEN <<text>>
  ELSE LET st == SplitLoop([chunks |-> <<>>, currentChunk |-> <<>>], SplitLines(text), 1,
                           maxLength)
       IN IF Len(st.currentChunk) > 0 THEN Append(st.chunks, st.currentChunk) ELSE st.chunks

\* splitLongMessage(text, maxLength) was called, maxLength >= 1
SplitStart ==
  \E text \in Texts, maxLength \in 1..MaxLength :
    FnCalled([fn |-> "splitLongMessage", text |-> text, maxLength |-> maxLength])

SplitReturn == FnReturn(splitLongMessage(fnCall.text, fnCall.maxLength))

SplitNext == SplitReturn

(***************************************************************************)
(* Claims about splitLongMessage                                           *)
(***************************************************************************)
\* C16: every chunk splitLongMessage returns is at most maxLength characters long,
\* for every text and every maxLength >= 1, and a text of at most maxLength
\* characters is returned unchanged as the only chunk.
C16_ChunksFit ==
  fnDone =>
    /\ \A i \in 1..Len(fnRet) : Len(fnRet[i]) <= fnCall.maxLength
    /\ Len(fnCall.text) <= fnCall.maxLength => fnRet = <<fnCall.text>>

\* a text of a long line and short lines, split into segments and joined lines
C16_Witness ==
  /\ fnDone /\ fnCall.maxLength = 3 /\ Len(fnCall.text) > 3
  /\ \E i \in 1..Len(fnRet) : Len(fnRet[i]) = 3 /\ "\n" \in {fnRet[i][j] : j \in 1..3}
  /\ \E i \in 1..Len(fnRet) : fnRet[i] = <<"a", "a", "a">>

(***************************************************************************)
(* addFieldChunked                                                         *)
(***************************************************************************)
\* the strings of an array of values: up to MaxValueLen letters
ValueStrings == UNION {[1..k -> {"a"}] : k \in 0..MaxValueLen}
ValueArrays == UNION {[1..k -> ValueStrings] : k \in 0..MaxValues}
None == <<"N", "o", "n", "e">>

\* the body of the loop over values
ChunkValue(st, value, chunkSize) ==
  IF Len(st.current) + Len(value) + 1 > chunkSize
    THEN [chunks |-> Append(st.chunks, st.current), current |-> value]
    ELSE [chunks |-> st.chunks,
          current |-> (IF Len(st.current) > 0 THEN st.current \o <<"\n">> ELSE st.current)
                        \o value]

RECURSIVE ChunkLoop(_, _, _, _)
ChunkLoop(st, values, i, chunkSize) ==
  IF i > Len(values) THEN st
  ELSE ChunkLoop(ChunkValue(st, values[i], chunkSize), values, i + 1, chunkSize)

\* chunks after the loop and "if (current) chunks.push(current)"
FieldChunks(values, chunkSize) ==
  LET st == ChunkLoop([chunks |-> <<>>, current |-> <<>>], values, 1, chunkSize)
  IN IF Len(st.current) > 0 THEN Append(st.chunks, st.current) ELSE st.chunks

\* a field handed to embed.addFields; chunks[0] of no chunks is undefined
Field(name, chunks, i) ==
  [name |-> name,
   value |-> IF i <= Len(chunks) THEN chunks[i] ELSE <<>>,
   undefined |-> i > Len(chunks)]

\* the fields addFieldChunked adds to the embed, in order
addFieldChunked(values, chunkSize) ==
  IF Len(values) = 0 THEN <<Field("name", <<None>>, 1)>>
  ELSE LET chunks == FieldChunks(values, chunkSize)
       IN <<Field("name", chunks, 1)>>
            \o [i \in 1..(Len(chunks) - 1) |-> Field("name (continued)", chunks, i + 1)]

\* addFieldChunked(embed, name, values, chunkSize) was called, chunkSize >= 1
ChunkedStart ==
  \E values \in ValueArrays, chunkSize \in 1..MaxChunkSize :
    FnCalled([fn |-> "addFieldChunked", values |-> values, chunkSize |-> chunkSize])

ChunkedReturn == FnReturn(addFieldChunked(fnCall.values, fnCall.chunkSize))

ChunkedNext == ChunkedReturn

(***************************************************************************)
(* Claims about addFieldChunked                                            *)
(***************************************************************************)
\* C17: the fields addFieldChunked adds have values of at most chunkSize
\* characters each, for every array of values and every chunkSize >= 1; the first
\* field is named name and every further one 'name (continued)'; an empty array of
\* values adds the single field value 'None'.
C17_FieldsFit ==
  fnDone =>
    IF Len(fnCall.values) = 0
      THEN fnRet = <<[name |-> "name", value |-> None, undefined |-> FALSE]>>
      ELSE /\ Len(fnRet) >= 1
           /\ \A i \in 1..Len(fnRet) :
                /\ Len(fnRet[i].value) <= fnCall.chunkSize
                /\ fnRet[i].name = (IF i = 1 THEN "name" ELSE "name (continued)")

(***************************************************************************)
(* chunkEmbedFields                                                        *)
(***************************************************************************)
\* the arrays of fields: the fields f1, f2, ... in every order and number
FieldNames == {"f1", "f2"}
FieldArrays == UNION {[1..k -> FieldNames] : k \in 0..MaxFields}

\* fields.slice(i, i + max), i counted from 0
FieldSliceShort(fields, i, max) == SubSeq(fields, i + 1, Min(i + max - 1, Len(fields)))

FieldSlice(fields, i, max) == SubSeq(fields, i + 1, Min(i + max, Len(fields)))

\* the for loop: chunks of max fields from position i on
RECURSIVE FieldLoop(_, _, _, _)
FieldLoop(chunks, fields, i, max) ==
  IF i < Len(fields)
    THEN FieldLoop(Append(chunks, FieldSlice(fields, i, max)), fields, i + max, max)
    ELSE chunks

chunkEmbedFields(fields, max) ==
  LET chunks == FieldLoop(<<>>, fields, 0, max)
  IN IF Len(chunks) > 0 THEN chunks ELSE <<<<>>>>

\* chunkEmbedFields(fields, max) was called, max >= 1
FieldsStart ==
  \E fields \in FieldArrays, max \in 1..MaxGroup :
    FnCalled([fn |-> "chunkEmbedFields", fields |-> fields, max |-> max])

FieldsReturn == FnReturn(chunkEmbedFields(fnCall.fields, fnCall.max))

FieldsNext == FieldsReturn

(***************************************************************************)
(* Claims about chunkEmbedFields                                           *)
(***************************************************************************)
RECURSIVE C18_Concat(_, _)
C18_Concat(groups, k) == IF k = 0 THEN <<>> ELSE C18_Concat(groups, k - 1) \o groups[k]

\* C18: for max >= 1 chunkEmbedFields returns groups of at most max fields, all
\* but the last of exactly max, whose concatenation in order is the input; an empty
\* input gives the single empty group.
C18_Groups ==
  fnDone =>
    /\ \A i \in 1..Len(fnRet) : Len(fnRet[i]) <= fnCall.max
    /\ \A i \in 1..(Len(fnRet) - 1) : Len(fnRet[i]) = fnCall.max
    /\ C18_Concat(fnRet, Len(fnRet)) = fnCall.fields
    /\ Len(fnCall.fields) = 0 => fnRet = <<<<>>>>

\* five fields in groups of two: two full groups and a last one of one field
C18_Witness ==
  /\ fnDone /\ fnCall.max = 2 /\ Len(fnCall.fields) = 5
  /\ Len(fnRet) = 3 /\ Len(fnRet[3]) = 1

(***************************************************************************)
(* canMemberManage                                                         *)
(***************************************************************************)
\* the members of a guild; a guild is its owner and the position of every member's
\* highest role
GuildMembers == {"a", "b", "c"}
Guilds == [ownerId : GuildMembers, position : [GuildMembers -> 0..MaxPosition]]

\* member.roles.highest.position > target.roles.highest.position
HigherRoleOrEqual(guild, member, target) == guild.position[member] >= guild.position[target]

HigherRole(guild, member, target) == guild.position[member] > guild.position[target]

canMemberManage(guild, member, target) ==
  IF member = target THEN FALSE
  ELSE IF member = guild.ownerId THEN TRUE
  ELSE IF target = guild.ownerId THEN FALSE
  ELSE HigherRole(guild, member, target)

\* canMemberManage is about to be called on the members of a guild
ManageStart == \E guild \in Guilds : FnCalled([fn |-> "canMemberManage", guild |-> guild])

\* canMemberManage(member, target) for every two members of the guild
ManageReturn ==
  FnReturn([pair \in GuildMembers \X GuildMembers |->
              canMemberManage(fnCall.guild, pair[1], pair[2])])

ManageNext == ManageReturn

(***************************************************************************)
(* Claims about canMemberManage                                            *)
(***************************************************************************)
C19_Manages(member, target) == fnRet[<<member, target>>]

\* C19: within one guild canMemberManage is a strict hierarchy: no member manages
\* themselves, the owner manages every other member, nobody manages the owner, two
\* members who are not the owner are related exactly when the first's highest role
\* is strictly higher, and the relation is asymmetric.
C19_StrictHierarchy ==
  fnDone =>
    LET owner == fnCall.guild.ownerId
        position == fnCall.guild.position
    IN /\ \A m \in GuildMembers : ~C19_Manages(m, m)
       /\ \A t \in GuildMembers \ {owner} : C19_Manages(owner, t)
       /\ \A m \in GuildMembers : ~C19_Manages(m, owner)
       /\ \A m, t \in GuildMembers \ {owner} :
            m # t => (C19_Manages(m, t) <=> position[m] > position[t])
       /\ \A m, t \in GuildMembers : C19_Manages(m, t) => ~C19_Manages(t, m)

\* an owner below everybody else, and two other members with equal highest roles
C19_Witness ==
  /\ fnDone /\ fnCall.guild.ownerId = "a"
  /\ fnCall.guild.position = [m \in GuildMembers |-> IF m = "a" THEN 0 ELSE 1]
  /\ C19_Manages("a", "b") /\ ~C19_Manages("b", "c") /\ ~C19_Manages("c", "b")

(***************************************************************************)
(* Specifications: each part of the library on its own, the others unused  *)
(***************************************************************************)
CdInit == CdStart /\ PgIdle /\ WtIdle /\ CfIdle /\ DfIdle /\ FmIdle /\ RlIdle /\ FnIdle
SpecCooldown == CdInit /\ [][CdNext]_vars
\* the event loop runs every timer that is due, and time goes on
SpecCooldownFair ==
  SpecCooldown /\ WF_vars(Tick) /\ WF_vars(\E tm \in BagToSet(timers) : Expire(tm))

PgInit == CdStart /\ PgStart /\ WtIdle /\ CfIdle /\ DfIdle /\ FmIdle /\ RlIdle /\ FnIdle
SpecPaginate == PgInit /\ [][PgNext]_vars
\* the executor runs, the send settles and the collector's time runs out
SpecPaginateFair ==
  SpecPaginate /\ WF_vars(PgCall) /\ WF_vars(SendDone \/ SendFail) /\ WF_vars(PgTimeout)

\* the collector ends when its time option has passed
WtInit == CdStart /\ PgIdle /\ WtStart /\ CfIdle /\ DfIdle /\ FmIdle /\ RlIdle /\ FnIdle
SpecWait == WtInit /\ [][WtNext]_vars /\ WF_vars(WtTimeout)

CfInit == CdStart /\ PgIdle /\ WtIdle /\ CfStart /\ DfIdle /\ FmIdle /\ RlIdle /\ FnIdle
SpecConfirm == CfInit /\ [][CfNext]_vars

DfInit == CdStart /\ PgIdle /\ WtIdle /\ CfIdle /\ DfStart /\ FmIdle /\ RlIdle /\ FnIdle
SpecDefer == DfInit /\ [][DfNext]_vars

FmInit == CdStart /\ PgIdle /\ WtIdle /\ CfIdle /\ DfIdle /\ FmStart /\ RlIdle /\ FnIdle
SpecFetch == FmInit /\ [][FmNext]_vars

RlInit == CdStart /\ PgIdle /\ WtIdle /\ CfIdle /\ DfIdle /\ FmIdle /\ RlStart /\ FnIdle
SpecRoles == RlInit /\ [][RlNext]_vars

BkInit == CdStart /\ PgIdle /\ WtIdle /\ CfIdle /\ DfIdle /\ FmIdle /\ BkStart /\ FnIdle
SpecBulk == BkInit /\ [][BkNext]_vars

SplitInit == CdStart /\ PgIdle /\ WtIdle /\ CfIdle /\ DfIdle /\ FmIdle /\ RlIdle /\ SplitStart
SpecSplit == SplitInit /\ [][SplitNext]_vars

ChunkedInit == CdStart /\ PgIdle /\ WtIdle /\ CfIdle /\ DfIdle /\ FmIdle /\ RlIdle /\ ChunkedStart
SpecFieldChunked == ChunkedInit /\ [][ChunkedNext]_vars

FieldsInit == CdStart /\ PgIdle /\ WtIdle /\ CfIdle /\ DfIdle /\ FmIdle /\ RlIdle /\ FieldsStart
SpecChunkFields == FieldsInit /\ [][FieldsNext]_vars

ManageInit == CdStart /\ PgIdle /\ WtIdle /\ CfIdle /\ DfIdle /\ FmIdle /\ RlIdle /\ ManageStart
SpecManage == ManageInit /\ [][ManageNext]_vars

(***************************************************************************)
(* Claims about the CooldownManager                                        *)
(***************************************************************************)

\* C1: once check(u, c, d) with d > 0 returned onCooldown = false at time t, every
\* later check(u, c, d) at a time t' with t <= t' < t + d returns onCooldown = true,
\* however the checks on (u, c) interleave with the expiry timers (fired at or after
\* their deadline).
C1_CooldownEnforced ==
  (res.op = "check" /\ res.dur > 0 /\ InWindow(res.prevOk, res.dur, res.at))
    => res.onCooldown

\* C2: the result of check is consistent: on cooldown, timeLeft is (recorded
\* timestamp + duration) - now and 0 < timeLeft <= duration; not on cooldown,
\* timeLeft is 0; the first check of a (user, command) pair is not on cooldown.
C2_ResultConsistent ==
  res.op = "check" =>
    /\ res.onCooldown =>
         /\ res.ts # NoTime
         /\ res.timeLeft = (res.ts + res.dur) - res.at
         /\ 0 < res.timeLeft
         /\ res.timeLeft <= res.dur
    /\ ~res.onCooldown => res.timeLeft = 0
    /\ res.first => ~res.onCooldown

\* a check that is refused one time unit into a cooldown of two
C2_Witness ==
  res.op = "check" /\ res.onCooldown /\ res.dur = 2 /\ res.timeLeft = 1 /\ ~res.first

\* C3: a check on (u1, c1) and the timers it scheduled never add, change or delete
\* the timestamp of another pair (u2, c2): a step changes the timestamp of a pair
\* only if it is a check of that pair or the firing of a timer of that pair.
C3_PerUserPerCommand ==
  [][\A u \in Users, c \in Commands :
       Timestamp(cooldowns, c, u) # Timestamp(cooldowns', c, u)
         => (res'.op \in {"check", "expire"} /\ res'.user = u /\ res'.cmd = c)]_vars

\* a timer of one pair has fired and deleted its timestamp while the same user
\* holds a timestamp under another command and another user one under this command
C3_Witness ==
  /\ res.op = "expire"
  /\ ~HasTimestamp(cooldowns, res.cmd, res.user)
  /\ \E c \in Commands \ {res.cmd} : HasTimestamp(cooldowns, c, res.user)

\* a timestamp of (u, c) is in the map
C20_Recorded(u, c) == HasTimestamp(cooldowns, c, u)
C20_NoEntries == \A u \in Users, c \in Commands : ~C20_Recorded(u, c)
C20_IsCheck == \E p \in Pairs, d \in Durations : Check(p[1], p[2], d)

\* C20: whenever a timestamp for (user, command) is in the map, a timer is pending
\* that will delete it; so, timers firing fairly, if from some point on no check is
\* made every user entry is eventually removed; and the inner collection of a
\* command, once created, is never removed.
C20_ExpiryScheduled ==
  /\ [](\A u \in Users, c \in Commands :
          C20_Recorded(u, c) =>
            \E tm \in BagToSet(timers) : tm.user = u /\ tm.cmd = c)
  /\ (<>[][~C20_IsCheck]_vars) => <>[]C20_NoEntries
  /\ [][DOMAIN cooldowns \subseteq DOMAIN cooldowns']_vars

\* the last timer has fired: both commands keep their inner collection, no user
\* entry is left
C20_Witness ==
  /\ res.op = "expire" /\ C20_NoEntries
  /\ timers = EmptyBag /\ DOMAIN cooldowns = Commands

\* C21: the expiry timer a check scheduled only ever deletes the timestamp that
\* this same check recorded, never one recorded by a later check of the same user
\* and command, whatever the durations and however late the timer fires.
C21_TimerDeletesOwn ==
  [][(res'.op = "expire"
        /\ HasTimestamp(cooldowns, res'.cmd, res'.user)
        /\ ~HasTimestamp(cooldowns', res'.cmd, res'.user))
       => Timestamp(cooldowns, res'.cmd, res'.user) = res'.setAt]_vars

\* C22: a check that returns onCooldown = true changes nothing: the timestamp of
\* (user, command) is not refreshed and no timer is scheduled, so rejected checks
\* never extend the cooldown.
C22_RejectedChangesNothing ==
  [][(res'.op = "check" /\ res'.onCooldown)
       => /\ cooldowns' = cooldowns
          /\ timers' = timers
          /\ Timestamp(cooldowns', res'.cmd, res'.user) = res'.ts]_vars

\* a check rejected one time unit after the accepted one: the timestamp is still
\* the one of the accepted check and its timer is the only one
C22_Witness ==
  /\ res.op = "check" /\ res.onCooldown /\ res.at = res.ts + 1
  /\ Timestamp(cooldowns, res.cmd, res.user) = res.ts
  /\ BagCardinality(timers) = 1


\* C27: with trackErrors true and at least one failed member operation, the result
\* bulkRoleManager returns carries an errors array with one Error per failed
\* member: errors.length = failed.
C27_ErrorsTracked ==
  (bkPhase = "resolved" /\ bk.trackErrors /\ bkResult.failed >= 1) =>
    /\ bkResult.hasErrors
    /\ Len(bkResult.errors) = bkResult.failed

====
